---------------------------- MODULE Spec2Model ----------------------------
(***************************************************************************)
(* Model of gbc-image-transform (src/src/main.rs, src/src/args.rs):        *)
(* main runs get_pixelated_image -> find_palette -> reduce_colors -> save. *)
(*                                                                         *)
(* An image is a record [width, height, raw] where raw is the flat RGBA    *)
(* byte buffer (ImageBuffer<Rgba<u8>, Vec<u8>>), 4 bytes per pixel, row    *)
(* major.  An Option<u32> is <<>> for None and <<n>> for Some(n).          *)
(*                                                                         *)
(* f32 colour channels are fixed-point: a channel c in [0,1] is the        *)
(* integer n with c * 255 = n / Den, so an 8-bit value v converts to       *)
(* v * Den and `(c * 255f32) as u8` is n \div Den saturated to 0..255.     *)
(***************************************************************************)
EXTENDS Integers, Sequences, FiniteSets

VARIABLES
    pc,                 \* position of main
    file,               \* the input file on disk
    pixelation_factor,  \* Args::pixelation_factor (u32)
    num_colors,         \* Args::num_colors (usize)
    transparent,        \* Args::transparent (bool)
    width,              \* Args::width (Option<u32>)
    height,             \* Args::height (Option<u32>)
    image,              \* main's `image`
    rgb_pixels,         \* find_palette's samples handed to get_kmeans
    centroids,          \* get_kmeans(..).centroids
    rgb8,               \* the centroids after `as u8`, before the 5-bit reduction
    palette,            \* main's `palette`
    before,             \* the image as it entered reduce_colors
    output,             \* the file written by image.save
    workers             \* reduce_colors: the per-chunk invocations of the closure

vars == <<pc, file, pixelation_factor, num_colors, transparent, width, height,
          image, rgb_pixels, centroids, rgb8, palette, before, output,
          workers>>

---------------------------------------------------------------------------
(* Bounds *)

MaxDim == 2
MaxFactor == 2
MaxTarget == 2
MaxColors == 2
MaxChunks == 4
Den == 2

---------------------------------------------------------------------------
(* Values *)

NoImage == [width |-> 0, height |-> 0, raw |-> <<>>]

Zeros(n) == [k \in 1..n |-> 0]

NumPixels(img) == Len(img.raw) \div 4

\* The three pixels the input images are made of: an opaque one halfway between
\* two palette colours, a fully transparent one and a half transparent one.
PixelKinds == << <<4, 4, 0, 255>>, <<0, 4, 16, 0>>, <<255, 255, 248, 128>> >>

PatternRaw(n, a, b) ==
    [k \in 1..(4 * n) |->
        PixelKinds[((a * ((k - 1) \div 4) + b) % 3) + 1][((k - 1) % 4) + 1]]

\* The decodable input files: every shape up to MaxDim x MaxDim, filled with
\* one pixel kind (a = 0) or with the three in rotation (a = 1), from each start.
Files ==
    { [ok |-> TRUE, width |-> w, height |-> h, raw |-> PatternRaw(w * h, a, b)] :
        w \in 1..MaxDim, h \in 1..MaxDim, a \in 0..1, b \in 0..2 }

Corrupt == [ok |-> FALSE, width |-> 0, height |-> 0, raw |-> <<>>]

Options(n) == {<<>>} \cup { <<v>> : v \in 1..n }

\* Centroid colours get_kmeans may return, channels in units of 1/(255*Den).
\* The first becomes palette colour (0,0,0), the second (8,8,0).
CentroidKinds ==
    { <<Den - 1, 0, 0>>,
      <<8 * Den, 8 * Den + 1, 7 * Den + (Den - 1)>> }

CentroidSeqs(k) == UNION { [1..n -> CentroidKinds] : n \in 0..k }

---------------------------------------------------------------------------
(* get_pixelated_image *)

TruncDiv(a, b) == a \div b

\* (a as f64 / b as f64).round() as u32: nearest, halves away from zero
\* (a, b >= 0).  The cast saturates at 2^32 - 1, which no quotient of the
\* dimensions modelled here comes near.
RoundDiv(a, b) == (2 * a + b) \div (2 * b)

FinalWidth(orig_width, orig_height, target_width, target_height) ==
    IF target_width # <<>> THEN target_width[1]
    ELSE IF target_height # <<>>
         THEN RoundDiv(orig_width * target_height[1], orig_height)
         ELSE orig_width

FinalHeight(orig_width, orig_height, target_width, target_height) ==
    IF target_height # <<>> THEN target_height[1]
    ELSE IF target_width # <<>>
         THEN RoundDiv(orig_height * target_width[1], orig_width)
         ELSE orig_height

\* imageops::resize(img, nwidth, nheight, FilterType::Nearest): an empty source
\* gives a zeroed nwidth x nheight buffer; otherwise each output pixel copies the
\* source pixel under its centre.
Resize(img, nwidth, nheight) ==
    IF img.width = 0 \/ img.height = 0
    THEN [width |-> nwidth, height |-> nheight, raw |-> Zeros(4 * nwidth * nheight)]
    ELSE [width |-> nwidth, height |-> nheight,
          raw |-> [k \in 1..(4 * nwidth * nheight) |->
                     LET p  == (k - 1) \div 4
                         c  == (k - 1) % 4
                         x  == p % nwidth
                         y  == p \div nwidth
                         sx == ((2 * x + 1) * img.width) \div (2 * nwidth)
                         sy == ((2 * y + 1) * img.height) \div (2 * nheight)
                     IN  img.raw[4 * (sy * img.width + sx) + c + 1]]]

Pixelate(orig, factor, target_width, target_height) ==
    Resize(Resize(orig, orig.width \div factor, orig.height \div factor),
           FinalWidth(orig.width, orig.height, target_width, target_height),
           FinalHeight(orig.width, orig.height, target_width, target_height))

---------------------------------------------------------------------------
(* find_palette *)

Pixel(img, i) == SubSeq(img.raw, 4 * (i - 1) + 1, 4 * i)

Pixels(img) == [i \in 1..NumPixels(img) |-> Pixel(img, i)]

\* The filter closure of find_palette.
KeepPixel(flag, pixel) == (~flag) \/ pixel[4] = 255

\* Srgb::<f32>::from_color(pixel.into_format::<_, f32>()): v / 255, alpha dropped.
IntoFormat(pixel) == <<pixel[1] * Den, pixel[2] * Den, pixel[3] * Den>>

Samples(img, flag) ==
    LET kept == SelectSeq(Pixels(img), LAMBDA p : KeepPixel(flag, p))
    IN  [i \in 1..Len(kept) |-> IntoFormat(kept[i])]

AsU8Round(n) ==
    LET v == (2 * n + Den) \div (2 * Den) IN IF v > 255 THEN 255 ELSE v

\* `(color.red * 255f32) as u8`: toward zero, saturating.
AsU8(n) == LET v == n \div Den IN IF v > 255 THEN 255 ELSE v

ToRgb8(color) == <<AsU8(color[1]), AsU8(color[2]), AsU8(color[3])>>

Reduce5Shifted(v) == ((v \div 8) * 4) % 256

\* (v >> 3) << 3 on a u8.
Reduce5(v) == ((v \div 8) * 8) % 256

ReduceRgb(color) == <<Reduce5(color[1]), Reduce5(color[2]), Reduce5(color[3])>>

---------------------------------------------------------------------------
(* reduce_colors *)

\* The i32 sum is at most 3 * 255^2 = 195075, so neither the sum nor the cast
\* to u32 wraps.
compute_squared_distance(first_color, second_color) ==
    LET red_diff   == first_color[1] - second_color[1]
        green_diff == first_color[2] - second_color[2]
        blue_diff  == first_color[3] - second_color[3]
    IN  red_diff * red_diff + green_diff * green_diff + blue_diff * blue_diff

\* Iterator::min_by_key: a left fold that keeps the earlier element unless the
\* later one compares strictly less.
RECURSIVE MinByKey(_, _, _, _)
MinByKey(pixel_rgb, pal, best, i) ==
    IF i > Len(pal) THEN best
    ELSE IF compute_squared_distance(pixel_rgb, pal[i])
              < compute_squared_distance(pixel_rgb, best)
         THEN MinByKey(pixel_rgb, pal, pal[i], i + 1)
         ELSE MinByKey(pixel_rgb, pal, best, i + 1)

RECURSIVE MinByKeyLast(_, _, _, _)
MinByKeyLast(pixel_rgb, pal, best, i) ==
    IF i > Len(pal) THEN best
    ELSE IF compute_squared_distance(pixel_rgb, pal[i])
              <= compute_squared_distance(pixel_rgb, best)
         THEN MinByKeyLast(pixel_rgb, pal, pal[i], i + 1)
         ELSE MinByKeyLast(pixel_rgb, pal, best, i + 1)

RECURSIVE MaxByKey(_, _, _, _)
MaxByKey(pixel_rgb, pal, best, i) ==
    IF i > Len(pal) THEN best
    ELSE IF compute_squared_distance(pixel_rgb, pal[i])
              >= compute_squared_distance(pixel_rgb, best)
         THEN MaxByKey(pixel_rgb, pal, pal[i], i + 1)
         ELSE MaxByKey(pixel_rgb, pal, best, i + 1)

ClosestColorLast(pixel_rgb, pal) ==
    IF pal = <<>> THEN <<0, 0, 0>> ELSE MinByKeyLast(pixel_rgb, pal, pal[1], 2)

FarthestColor(pixel_rgb, pal) ==
    IF pal = <<>> THEN <<0, 0, 0>> ELSE MaxByKey(pixel_rgb, pal, pal[1], 2)

ClosestColorKeep(pixel_rgb, pal) ==
    IF pal = <<>> THEN pixel_rgb ELSE MinByKey(pixel_rgb, pal, pal[1], 2)

\* palette.iter().min_by_key(..).copied().unwrap_or(Rgb([0, 0, 0]))
ClosestColor(pixel_rgb, pal) ==
    IF pal = <<>> THEN <<0, 0, 0>> ELSE MinByKey(pixel_rgb, pal, pal[1], 2)

ReducePixelOpaque(p, pal) ==
    LET closest_color == ClosestColor(<<p[1], p[2], p[3]>>, pal)
    IN  <<closest_color[1], closest_color[2], closest_color[3], 255>>

\* The for_each closure: p is one 4-byte chunk.
ReducePixel(p, pal) ==
    LET closest_color == ClosestColor(<<p[1], p[2], p[3]>>, pal)
    IN  <<closest_color[1], closest_color[2], closest_color[3], p[4]>>

ChunkStartOverlap(i) == 2 * (i - 1) + 1

\* par_chunks_mut(4): chunk i starts at byte 4 * (i - 1) (1-based here).
ChunkStart(i) == 4 * (i - 1) + 1

NumChunks(raw) == (Len(raw) + 3) \div 4

Chunk(raw, i) == SubSeq(raw, ChunkStart(i), ChunkStart(i) + 3)

\* The bytes the closure indexes: p[0], p[1], p[2], both read and written.
ChunkRgbBytes(i) == ChunkStart(i) .. (ChunkStart(i) + 2)

\* The closure run on chunk i: the chunk becomes ReducePixel of itself.
WriteChunk(raw, i, pal) ==
    [k \in 1..Len(raw) |->
        IF k \in ChunkStart(i) .. (ChunkStart(i) + 3)
        THEN ReducePixel(Chunk(raw, i), pal)[k - ChunkStart(i) + 1]
        ELSE raw[k]]

RECURSIVE ReduceFrom(_, _, _)
ReduceFrom(raw, i, pal) ==
    IF i > NumChunks(raw) THEN raw
    ELSE ReduceFrom(WriteChunk(raw, i, pal), i + 1, pal)

\* reduce_colors as a whole: every chunk processed, in index order.
ReduceColors(img, pal) == [img EXCEPT !.raw = ReduceFrom(img.raw, 1, pal)]

---------------------------------------------------------------------------
(* main, one action per call *)

Init ==
    /\ pc = "start"
    /\ file \in Files \cup {Corrupt}
    /\ pixelation_factor \in 0..MaxFactor
    /\ num_colors \in 0..MaxColors
    /\ transparent \in BOOLEAN
    /\ width \in Options(MaxTarget)
    /\ height \in Options(MaxTarget)
    /\ image = NoImage
    /\ rgb_pixels = <<>>
    /\ centroids = <<>>
    /\ rgb8 = <<>>
    /\ palette = <<>>
    /\ before = NoImage
    /\ output = NoImage
    /\ workers = <<>>

GetPixelatedImage ==
    /\ pc = "start"
    /\ IF ~file.ok
       THEN /\ pc' = "failed"            \* open(image_path)? returns Err
            /\ image' = image
       ELSE IF pixelation_factor = 0
       THEN /\ pc' = "panicked"          \* orig_width / 0
            /\ image' = image
       ELSE /\ pc' = "pixelated"
            /\ image' = Pixelate([width |-> file.width, height |-> file.height,
                                  raw |-> file.raw],
                                 pixelation_factor, width, height)
    /\ UNCHANGED <<file, pixelation_factor, num_colors, transparent, width, height,
                   rgb_pixels, centroids, rgb8, palette, before, output,
                   workers>>

FindPalette ==
    /\ pc = "pixelated"
    /\ rgb_pixels' = Samples(image, transparent)
    /\ centroids' \in CentroidSeqs(num_colors)
    /\ rgb8' = [i \in 1..Len(centroids') |-> ToRgb8(centroids'[i])]
    /\ palette' = [i \in 1..Len(centroids') |-> ReduceRgb(rgb8'[i])]
    /\ pc' = "palette"
    /\ UNCHANGED <<file, pixelation_factor, num_colors, transparent, width, height,
                   image, before, output, workers>>

ReduceColorsCall ==
    /\ pc = "palette"
    /\ before' = image
    /\ image' = ReduceColors(image, palette)
    /\ pc' = "reduced"
    /\ UNCHANGED <<file, pixelation_factor, num_colors, transparent, width, height,
                   rgb_pixels, centroids, rgb8, palette, output,
                   workers>>

Save ==
    /\ pc = "reduced"
    /\ \E ok \in BOOLEAN :
          IF ok THEN pc' = "saved" /\ output' = image
                ELSE pc' = "failed" /\ output' = output
    /\ UNCHANGED <<file, pixelation_factor, num_colors, transparent, width, height,
                   image, rgb_pixels, centroids, rgb8, palette, before,
                   workers>>

Next == GetPixelatedImage \/ FindPalette \/ ReduceColorsCall \/ Save

Spec == Init /\ [][Next]_vars

---------------------------------------------------------------------------
(* reduce_colors with its closure run by parallel workers, one invocation per *)
(* chunk, each split into its reads (line 165) and its writes (175-177).      *)

IdleWorker == [state |-> "idle", pixel_rgb |-> <<>>, reads |-> {}, writes |-> {}]

\* main on entry to reduce_colors, for an image of at most MaxChunks pixels
\* pixelated with factor 1 and no target size, and any palette find_palette can
\* return.
InitPar ==
    /\ pc = "reducing"
    /\ file \in { f \in Files : f.width * f.height <= MaxChunks }
    /\ pixelation_factor = 1
    /\ num_colors = MaxColors
    /\ transparent = FALSE
    /\ width = <<>>
    /\ height = <<>>
    /\ image = Pixelate([width |-> file.width, height |-> file.height,
                         raw |-> file.raw], pixelation_factor, width, height)
    /\ rgb_pixels = Samples(image, transparent)
    /\ centroids \in CentroidSeqs(num_colors)
    /\ rgb8 = [i \in 1..Len(centroids) |-> ToRgb8(centroids[i])]
    /\ palette = [i \in 1..Len(centroids) |-> ReduceRgb(rgb8[i])]
    /\ before = image
    /\ output = NoImage
    /\ workers = [i \in 1..NumChunks(image.raw) |-> IdleWorker]

\* let pixel_rgb = Rgb([p[0], p[1], p[2]]);
WorkerRead(i) ==
    /\ pc = "reducing"
    /\ workers[i].state = "idle"
    /\ workers' = [workers EXCEPT ![i] =
                     [state |-> "read",
                      pixel_rgb |-> <<image.raw[ChunkStart(i)],
                                      image.raw[ChunkStart(i) + 1],
                                      image.raw[ChunkStart(i) + 2]>>,
                      reads |-> ChunkRgbBytes(i),
                      writes |-> {}]]
    /\ UNCHANGED <<pc, file, pixelation_factor, num_colors, transparent, width,
                   height, image, rgb_pixels, centroids, rgb8, palette, before,
                   output>>

\* closest_color = ...; p[0] = closest_color[0]; p[1] = ...; p[2] = ...
WorkerWrite(i) ==
    /\ pc = "reducing"
    /\ workers[i].state = "read"
    /\ LET closest_color == ClosestColor(workers[i].pixel_rgb, palette)
       IN  image' = [image EXCEPT !.raw =
                       [k \in 1..Len(image.raw) |->
                           IF k \in ChunkRgbBytes(i)
                           THEN closest_color[k - ChunkStart(i) + 1]
                           ELSE image.raw[k]]]
    /\ workers' = [workers EXCEPT ![i].state = "done",
                                  ![i].writes = ChunkRgbBytes(i)]
    /\ UNCHANGED <<pc, file, pixelation_factor, num_colors, transparent, width,
                   height, rgb_pixels, centroids, rgb8, palette, before, output>>

\* for_each returns once every chunk has been processed.
WorkersJoin ==
    /\ pc = "reducing"
    /\ \A i \in DOMAIN workers : workers[i].state = "done"
    /\ pc' = "reduced"
    /\ UNCHANGED <<file, pixelation_factor, num_colors, transparent, width, height,
                   image, rgb_pixels, centroids, rgb8, palette, before, output,
                   workers>>

NextPar ==
    \/ \E i \in DOMAIN workers : WorkerRead(i)
    \/ \E i \in DOMAIN workers : WorkerWrite(i)
    \/ WorkersJoin

SpecPar == InitPar /\ [][NextPar]_vars

---------------------------------------------------------------------------
(* Properties *)

Rgb(img, i) == <<Pixel(img, i)[1], Pixel(img, i)[2], Pixel(img, i)[3]>>

Alpha(img, i) == Pixel(img, i)[4]

Sq(x) == x * x

SquaredRgbDistance(a, b) == Sq(a[1] - b[1]) + Sq(a[2] - b[2]) + Sq(a[3] - b[3])

AfterReduce == pc \in {"reduced", "saved"}

\* r is a / b rounded to the nearest integer, halves up (a >= 0, b > 0).
IsRounded(r, a, b) == 2 * b * r <= 2 * a + b /\ 2 * a + b < 2 * b * (r + 1)

\* C1 (as claimed): after find_palette, the samples handed to clustering are the
\* fully opaque pixels (alpha = 255) when the transparent flag is false, and all
\* pixels when it is true.
C1_OpaqueOnlyUnlessFlag ==
    pc = "palette" =>
        LET want == SelectSeq(Pixels(image),
                              LAMBDA p : transparent \/ p[4] = 255)
        IN  rgb_pixels = [i \in 1..Len(want) |->
                            <<want[i][1] * Den, want[i][2] * Den, want[i][3] * Den>>]

\* C2 (as claimed): once get_pixelated_image has run on a decodable image with
\* factor 0, or with a factor that truncates a dimension to 0, it has returned
\* an error: no panic and no image.
C2_SizeErrorReturned ==
    (pc # "start" /\ file.ok
        /\ (pixelation_factor = 0
            \/ file.width \div pixelation_factor = 0
            \/ file.height \div pixelation_factor = 0))
    => (pc = "failed" /\ image = NoImage)

\* C3: with a non-empty palette, every pixel's RGB after reduce_colors is a
\* palette entry at minimal squared distance from the pixel's RGB before, and it
\* is the entry of lowest index among those at that distance.
C3_NearestFirst ==
    (AfterReduce /\ palette # <<>>) =>
        \A i \in 1..NumPixels(before) :
            \E k \in 1..Len(palette) :
                /\ Rgb(image, i) = palette[k]
                /\ \A j \in 1..Len(palette) :
                      SquaredRgbDistance(Rgb(before, i), palette[j])
                          >= SquaredRgbDistance(Rgb(before, i), palette[k])
                /\ \A j \in 1..(k - 1) :
                      SquaredRgbDistance(Rgb(before, i), palette[j])
                          > SquaredRgbDistance(Rgb(before, i), palette[k])

\* A pixel went through reduce_colors with two different palette colours tied
\* at its minimal distance.
C3_Witness ==
    /\ pc = "reduced"
    /\ \E i \in 1..NumPixels(before), j, k \in 1..Len(palette) :
          /\ j < k
          /\ palette[j] # palette[k]
          /\ SquaredRgbDistance(Rgb(before, i), palette[j])
                = SquaredRgbDistance(Rgb(before, i), palette[k])
          /\ \A m \in 1..Len(palette) :
                SquaredRgbDistance(Rgb(before, i), palette[m])
                    >= SquaredRgbDistance(Rgb(before, i), palette[j])

\* C4: reduce_colors with an empty palette sets every pixel's R, G and B to 0
\* and leaves every alpha as it was.
C4_EmptyPaletteBlack ==
    (AfterReduce /\ palette = <<>>) =>
        /\ NumPixels(image) = NumPixels(before)
        /\ \A i \in 1..NumPixels(before) :
              Pixel(image, i) = <<0, 0, 0, Alpha(before, i)>>

\* reduce_colors ran with an empty palette on an image with a coloured pixel.
C4_Witness ==
    /\ pc = "reduced"
    /\ palette = <<>>
    /\ \E i \in 1..NumPixels(before) : Rgb(before, i) # <<0, 0, 0>>

\* C5: applying reduce_colors again with the same palette to the result of
\* reduce_colors changes no pixel.
C5_Idempotent == AfterReduce => ReduceColors(image, palette) = image

\* reduce_colors changed the image, with a palette holding a duplicate entry.
C5_Witness ==
    /\ pc = "reduced"
    /\ image # before
    /\ Len(palette) >= 2
    /\ palette[1] = palette[2]

\* C6 (as claimed): every centroid channel c becomes round(c * 255) clipped to
\* 0..255 before the bit-depth reduction.
C6_RoundsToNearest ==
    \A i \in 1..Len(rgb8) : \A c \in 1..3 :
        LET r == (2 * centroids[i][c] + Den) \div (2 * Den)
        IN  rgb8[i][c] = IF r > 255 THEN 255 ELSE r

\* C6 (amended): every centroid channel c becomes floor(c * 255), saturated to
\* 0..255, before the bit-depth reduction.
C6_Truncates ==
    /\ Len(rgb8) = Len(centroids)
    /\ \A i \in 1..Len(rgb8) : \A c \in 1..3 :
          LET v == rgb8[i][c]
              n == centroids[i][c]
          IN  \/ v = 255 /\ n >= 255 * Den
              \/ v < 255 /\ v * Den <= n /\ n < (v + 1) * Den

\* find_palette converted a centroid channel whose fraction is at least one half.
C6_Witness ==
    /\ pc = "palette"
    /\ \E i \in 1..Len(centroids) : \E c \in 1..3 :
          2 * (centroids[i][c] % Den) >= Den

\* C7: the image get_pixelated_image returns is w x h when both targets are
\* given, w x round(orig_height * w / orig_width) when only w is,
\* round(orig_width * h / orig_height) x h when only h is, and of the original
\* size when neither is -- whatever the factor.
C7_FinalDimensions ==
    pc = "pixelated" =>
        /\ Len(image.raw) = 4 * image.width * image.height
        /\ CASE width # <<>> /\ height # <<>> ->
                  image.width = width[1] /\ image.height = height[1]
             [] width # <<>> /\ height = <<>> ->
                  /\ image.width = width[1]
                  /\ IsRounded(image.height, file.height * width[1], file.width)
             [] width = <<>> /\ height # <<>> ->
                  /\ image.height = height[1]
                  /\ IsRounded(image.width, file.width * height[1], file.height)
             [] OTHER ->
                  image.width = file.width /\ image.height = file.height

\* get_pixelated_image returned with a factor above 1 and a derived height that
\* had to be rounded up.
C7_Witness ==
    /\ pc = "pixelated"
    /\ pixelation_factor > 1
    /\ width # <<>>
    /\ height = <<>>
    /\ 2 * ((file.height * width[1]) % file.width) >= file.width

\* C8: (v >> 3) << 3 is idempotent on every 8-bit value, and every channel of
\* every palette entry has its low 3 bits zero.
C8_ReductionIdempotent ==
    /\ pc = "start" => \A v \in 0..255 : Reduce5(Reduce5(v)) = Reduce5(v)
    /\ \A i \in 1..Len(palette) : \A c \in 1..3 :
          /\ palette[i][c] % 8 = 0
          /\ palette[i][c] \in 0..255
          /\ Reduce5(palette[i][c]) = palette[i][c]

\* find_palette reduced a channel whose low 3 bits were not all zero.
C8_Witness ==
    /\ pc = "palette"
    /\ \E i \in 1..Len(rgb8) : \E c \in 1..3 : rgb8[i][c] % 8 # 0

\* C9: reduce_colors leaves every alpha byte, the width, the height and the
\* buffer length as they were.
C9_Frame ==
    AfterReduce =>
        /\ image.width = before.width
        /\ image.height = before.height
        /\ Len(image.raw) = Len(before.raw)
        /\ Len(image.raw) = 4 * image.width * image.height
        /\ \A i \in 1..NumPixels(before) : Alpha(image, i) = Alpha(before, i)

\* reduce_colors changed an image that holds a pixel that is not opaque.
C9_Witness ==
    /\ pc = "reduced"
    /\ image # before
    /\ \E i \in 1..NumPixels(before) : Alpha(before, i) # 255

\* C10: whatever the interleaving of the per-chunk workers, no worker reads a
\* byte another worker writes, the palette is not written, and once all have
\* finished the image is the one sequential processing gives.
C10_WorkersIndependent ==
    /\ \A i, j \in DOMAIN workers :
          i # j => workers[i].reads \cap workers[j].writes = {}
    /\ palette = [i \in 1..Len(rgb8) |-> ReduceRgb(rgb8[i])]
    /\ (\A i \in DOMAIN workers : workers[i].state = "done")
          => image = ReduceColors(before, palette)

\* Two or more workers have all finished, and the image changed.
C10_Witness ==
    /\ pc = "reduced"
    /\ Len(workers) >= 2
    /\ image # before

===========================================================================
